---------------------------- MODULE Spec2Model ----------------------------
(***************************************************************************)
(* Finchie statement service: Statement.Normalize / GenerateID, the        *)
(* repository back ends (InMemoryRepo, MongoRepo), StatementService        *)
(* (SaveStatement, SyncTransactions) and the HTTP handler                  *)
(* (StatementManager.getHandler / postHandler).                            *)
(*                                                                         *)
(* An optional Go value (a nil-able pointer) is a sequence of length 0     *)
(* (nil) or 1 (the value).  A time.Time is a wall clock hour h together    *)
(* with the zone offset off, in hours, of its Location.                    *)
(***************************************************************************)
EXTENDS Integers, Sequences, FiniteSets, TLC

VARIABLES
    backend,       \* which StatementRepository NewRepoFromEnv returned
    statements,    \* the "statements" map / collection, keyed by id
    transactions,  \* the "transactions" map / collection, keyed by id
    uuidCtr,       \* number of uuid.NewString() tokens drawn so far
    posts,         \* number of POST requests received so far
    req,           \* per goroutine: the request being served and its locals
    pre,           \* history: the store as it was when the request arrived
    ops,           \* history: the repository calls the request has issued
    script,        \* requests still to be sent by a scripted client
    results,       \* history: responses the scripted client has received
    nin,           \* Normalize under test: the two receiver statements
    nout           \* Normalize under test: what each call left behind

vars == <<backend, statements, transactions, uuidCtr, posts, req, pre, ops,
          script, results, nin, nout>>

httpVars == <<backend, statements, transactions, posts, req, pre, ops,
              script, results>>

normVars == <<nin, nout>>

-----------------------------------------------------------------------------
(* Bounds of the model *)

MaxTx == 3

MaxPosts == 2

-----------------------------------------------------------------------------
(* Optional values and small helpers *)

Absent == <<>>

Some(v) == <<v>>

IsPresent(o) == Len(o) = 1

Put(f, k, v) == (k :> v) @@ f

Remove(f, k) == [x \in DOMAIN f \ {k} |-> f[x]]

SeqsUpTo(S, n) == UNION {[1..k -> S] : k \in 0..n}

Range(s) == {s[k] : k \in 1..Len(s)}

\* every ordering of a finite set, as sequences without repetition
Orderings(S) == {s \in [1..Cardinality(S) -> S] : Range(s) = S}

-----------------------------------------------------------------------------
(* time.Time *)

\* time.Time{}: the zero time, which a JSON body without "date" decodes to
ZeroTime == [h |-> 0, off |-> 0]

\* Time.UTC(): the same instant, Location set to UTC
UTC(t) == [h |-> t.h - t.off, off |-> 0]

\* two digits, for the hours 0..23 the model uses
HourText(h) == IF h < 10 THEN "0" \o ToString(h) ELSE ToString(h)

\* Time.Format(time.RFC3339): wall clock followed by "Z" or the numeric zone
RFC3339(t) ==
    "2025-01-01T" \o HourText(t.h) \o ":00:00"
        \o (IF t.off = 0 THEN "Z" ELSE "+0" \o ToString(t.off) \o ":00")

-----------------------------------------------------------------------------
(* models.go: Transaction and Statement *)

TransactionNormalize_Keep(tx) == tx

\* Transaction.Normalize: drops PaymentSource, never fails
TransactionNormalize(tx) == [tx EXCEPT !.payment_source = Absent]

\* n-th value of uuid.NewString()
UuidToken(n) == "u" \o ToString(n)

\* the third case of GenerateID is the only one that draws a uuid
DrawsUuid(b) ==
    /\ b.ID = ""
    /\ ~IsPresent(b.source_id)
    /\ ~IsPresent(b.payment_due_date)

GenerateID_Overwrite(b, tok) ==
    IF IsPresent(b.source_id)
    THEN [b EXCEPT !.ID = b.source_name \o "_" \o b.source_id[1]]
    ELSE IF IsPresent(b.payment_due_date)
         THEN [b EXCEPT !.ID = b.source_name \o "_"
                                 \o RFC3339(UTC(b.payment_due_date[1]))]
    ELSE [b EXCEPT !.ID = b.source_name \o "_" \o tok]

GenerateID_DateFirst(b, tok) ==
    IF b.ID # "" THEN b
    ELSE IF IsPresent(b.payment_due_date)
         THEN [b EXCEPT !.ID = b.source_name \o "_"
                                 \o RFC3339(UTC(b.payment_due_date[1]))]
    ELSE IF IsPresent(b.source_id)
         THEN [b EXCEPT !.ID = b.source_name \o "_" \o b.source_id[1]]
    ELSE [b EXCEPT !.ID = b.source_name \o "_" \o tok]

\* Statement.GenerateID; tok is what uuid.NewString() returns if it is called
GenerateID(b, tok) ==
    IF b.ID # "" THEN b
    ELSE IF IsPresent(b.source_id)
         THEN [b EXCEPT !.ID = b.source_name \o "_" \o b.source_id[1]]
    ELSE IF IsPresent(b.payment_due_date)
         THEN [b EXCEPT !.ID = b.source_name \o "_"
                                 \o RFC3339(UTC(b.payment_due_date[1]))]
    ELSE [b EXCEPT !.ID = b.source_name \o "_" \o tok]

MissingRequired_NoCurrency(b) == b.source_name = "" \/ b.total_amount <= 0

\* the validation that opens Statement.Normalize
MissingRequired(b) ==
    b.source_name = "" \/ b.total_amount <= 0 \/ b.currency = ""

NormalizeDetails_NoStamp(id, txs) ==
    [k \in 1..Len(txs) |-> TransactionNormalize(txs[k])]

\* the loop of Statement.Normalize over *b.Transactions
NormalizeDetails(id, txs) ==
    [k \in 1..Len(txs) |->
        TransactionNormalize([txs[k] EXCEPT !.statement_id = id])]

\* the transaction Statement.Normalize synthesizes; due is a present date
TotalAmountTransaction(b, due) ==
    [id |-> b.ID, description |-> "Total Amount", amount |-> b.total_amount,
     date |-> UTC(due), statement_id |-> b.ID, payment_source |-> Absent]

Normalize_AlwaysSynthesize(b, tok) ==
    IF MissingRequired(b) THEN [stmt |-> b, outcome |-> "error"]
    ELSE
      LET g == GenerateID(b, tok)
          txs == IF IsPresent(g.transactions) THEN g.transactions[1] ELSE <<>>
          n == [g EXCEPT !.transactions = Some(NormalizeDetails(g.ID, txs))]
      IN  IF IsPresent(n.payment_due_date)
          THEN [stmt |-> [n EXCEPT !.transactions =
                   Some(Append(n.transactions[1],
                               TotalAmountTransaction(n, n.payment_due_date[1])))],
                outcome |-> "ok"]
          ELSE IF Len(txs) = 0 THEN [stmt |-> n, outcome |-> "panic"]
          ELSE [stmt |-> n, outcome |-> "ok"]

\* Statement.Normalize.  The receiver is changed in place, so the result is
\* the receiver as the call leaves it together with how the call ended:
\* "ok" (nil), "error", or "panic" (b.PaymentDueDate.UTC() on a nil pointer,
\* reached after the id and the empty slice have been assigned).
Normalize(b, tok) ==
    IF MissingRequired(b) THEN [stmt |-> b, outcome |-> "error"]
    ELSE
      LET g == GenerateID(b, tok)
          txs == IF IsPresent(g.transactions) THEN g.transactions[1] ELSE <<>>
          n == [g EXCEPT !.transactions = Some(NormalizeDetails(g.ID, txs))]
      IN  IF Len(txs) = 0 /\ n.total_amount > 0
          THEN IF IsPresent(n.payment_due_date)
               THEN [stmt |-> [n EXCEPT !.transactions =
                        Some(<<TotalAmountTransaction(n, n.payment_due_date[1])>>)],
                     outcome |-> "ok"]
               ELSE [stmt |-> n, outcome |-> "panic"]
          ELSE [stmt |-> n, outcome |-> "ok"]

-----------------------------------------------------------------------------
(* encoding/json and bson: what the struct tags let through *)

\* json.Decode into a Transaction: StatementID and PaymentSource are tagged
\* json:"-", so whatever the body carries they stay at their zero value
DecodeTransaction(j) ==
    [id |-> j.id, description |-> j.description, amount |-> j.amount,
     date |-> j.date, statement_id |-> "", payment_source |-> Absent]

\* json.Decode into a Statement: ID is tagged json:"-" and stays ""
DecodeStatement(j) ==
    [ID |-> "", source_name |-> j.source_name, source_id |-> j.source_id,
     total_amount |-> j.total_amount, currency |-> j.currency,
     payment_due_date |-> j.payment_due_date,
     transactions |->
        IF IsPresent(j.transactions)
        THEN Some([k \in 1..Len(j.transactions[1]) |->
                      DecodeTransaction(j.transactions[1][k])])
        ELSE Absent]

\* json.Encode of a Transaction: id, description, amount, date
EncodeTransaction(tx) ==
    [id |-> tx.id, description |-> tx.description, amount |-> tx.amount,
     date |-> RFC3339(tx.date)]

\* json.Encode of a Statement: no id; omitempty drops the nil pointers
EncodeStatement(s) ==
    [source_name |-> s.source_name, source_id |-> s.source_id,
     total_amount |-> s.total_amount, currency |-> s.currency,
     payment_due_date |->
        IF IsPresent(s.payment_due_date)
        THEN Some(RFC3339(s.payment_due_date[1])) ELSE Absent,
     transactions |->
        IF IsPresent(s.transactions)
        THEN Some([k \in 1..Len(s.transactions[1]) |->
                      EncodeTransaction(s.transactions[1][k])])
        ELSE Absent]

\* a Transaction as a BSON document: a BSON datetime keeps the instant only
BsonTransaction(tx) == [tx EXCEPT !.date = UTC(tx.date)]

\* a Statement as a BSON document
BsonStatement(s) ==
    [s EXCEPT
       !.payment_due_date =
           IF IsPresent(s.payment_due_date)
           THEN Some(UTC(s.payment_due_date[1])) ELSE Absent,
       !.transactions =
           IF IsPresent(s.transactions)
           THEN Some([k \in 1..Len(s.transactions[1]) |->
                         BsonTransaction(s.transactions[1][k])])
           ELSE Absent]

\* {"$set": statement}: the fields the document carries are written, the ones
\* omitempty left out keep what the stored document had
SetStatement(old, s) ==
    LET d == BsonStatement(s)
    IN  [d EXCEPT
           !.source_id = IF IsPresent(d.source_id) THEN @ ELSE old.source_id,
           !.payment_due_date =
               IF IsPresent(d.payment_due_date) THEN @ ELSE old.payment_due_date,
           !.transactions =
               IF IsPresent(d.transactions) THEN @ ELSE old.transactions]

\* {"$set": tx}: statement_id and payment_source are omitempty
SetTransaction(old, tx) ==
    LET d == BsonTransaction(tx)
    IN  [d EXCEPT
           !.statement_id = IF d.statement_id # "" THEN @ ELSE old.statement_id,
           !.payment_source =
               IF IsPresent(d.payment_source) THEN @ ELSE old.payment_source]

\* what an upsert starts from when no document matches
NoStatementDoc ==
    [source_id |-> Absent, payment_due_date |-> Absent, transactions |-> Absent]

NoTransactionDoc == [statement_id |-> "", payment_source |-> Absent]

-----------------------------------------------------------------------------
(* mock_repo.go: InMemoryRepo and MongoRepo *)

Backends == {"memory", "mongo"}

\* whether a repository call can come back with an error of the driver
\* (timeout, unreachable server); InMemoryRepo's calls cannot
CallOutcomes(be) == IF be = "mongo" THEN {TRUE, FALSE} ELSE {TRUE}

\* UpsertStatement: statements[statement.ID] = statement / UpdateByID $set
UpsertStatement(be, stmts, s) ==
    IF be = "memory"
    THEN Put(stmts, s.ID, s)
    ELSE Put(stmts, s.ID,
             SetStatement(IF s.ID \in DOMAIN stmts THEN stmts[s.ID]
                          ELSE NoStatementDoc, s))

\* GetTransactions: the subset whose statement_id is statementId
TransactionsOf(txs, sid) ==
    {txs[k] : k \in {x \in DOMAIN txs : txs[x].statement_id = sid}}

\* the slices GetTransactions can return: map iteration (and an unsorted
\* Find) fix no order
GetTransactions(txs, sid) == Orderings(TransactionsOf(txs, sid))

UpsertTransaction_KeepFirst(be, txs, tx) ==
    IF tx.id \in DOMAIN txs THEN txs ELSE Put(txs, tx.id, tx)

\* UpsertTransaction: transactions[tx.ID] = *tx / UpdateByID $set
UpsertTransaction(be, txs, tx) ==
    IF be = "memory"
    THEN Put(txs, tx.id, tx)
    ELSE Put(txs, tx.id,
             SetTransaction(IF tx.id \in DOMAIN txs THEN txs[tx.id]
                            ELSE NoTransactionDoc, tx))

CanDelete_Always(txs, id) == TRUE

CanDelete_Never(txs, id) == FALSE

\* DeleteTransaction finds something to delete
CanDelete(txs, id) == id \in DOMAIN txs

DeleteTransaction_Keep(txs, id) == txs

\* DeleteTransaction on a stored id
DeleteTransaction(txs, id) == Remove(txs, id)

\* "transactions" of a statement, by id
PersistedIds(txs, sid) == {t.id : t \in TransactionsOf(txs, sid)}

-----------------------------------------------------------------------------
(* handlers: StatementManager and StatementService, one goroutine per request *)

Procs == {"p1", "p2"}

StatusOK == 200

StatusCreated == 201

StatusBadRequest == 400

StatusNotFound == 404

StatusMethodNotAllowed == 405

StatusInternalServerError == 500

\* no response: the handler panicked, net/http recovered and dropped the
\* connection
NoResponse == 0

NoStatement ==
    [ID |-> "", source_name |-> "", source_id |-> Absent, total_amount |-> 0,
     currency |-> "", payment_due_date |-> Absent, transactions |-> Absent]

NoBody ==
    [source_name |-> "", source_id |-> Absent, total_amount |-> 0,
     currency |-> "", payment_due_date |-> Absent, transactions |-> Absent]

\* a goroutine that serves nothing
IdleReq ==
    [pc |-> "idle", method |-> "", id |-> "", expand |-> <<"">>,
     wellformed |-> FALSE, body |-> NoBody, stmt |-> NoStatement,
     cur |-> <<>>, i |-> 1, j |-> 1, newTxMap |-> <<>>,
     status |-> NoResponse, resp |-> Absent]

\* strings.EqualFold(e, "transactions"), on the spellings the clients use
EqualFoldTransactions(e) == e \in {"transactions", "Transactions", "TRANSACTIONS"}

\* shouldExpandTransactions; items is strings.SplitSeq(query.Get("$expand"), ",")
shouldExpandTransactions(items) ==
    \E k \in 1..Len(items) : EqualFoldTransactions(items[k])

\* the handler writes its response and returns
Respond(r, status, resp) ==
    [r EXCEPT !.pc = "done", !.status = status, !.resp = resp]

Logged(p, op, key, ok) ==
    [ops EXCEPT ![p] = Append(@, [op |-> op, key |-> key, ok |-> ok])]

\* getHandler up to s.Repo.GetStatement
getHandlerBegin(r) ==
    IF r.id = "" THEN Respond(r, StatusBadRequest, Absent)
    ELSE [r EXCEPT !.pc = "GetStatement"]

\* postHandler up to s.Repo.UpsertStatement: Decode, then the Normalize of
\* SaveStatement
postHandlerBegin(r, tok) ==
    IF ~r.wellformed THEN Respond(r, StatusBadRequest, Absent)
    ELSE LET n == Normalize(DecodeStatement(r.body), tok)
         IN  CASE n.outcome = "error" ->
                    Respond([r EXCEPT !.stmt = n.stmt],
                            StatusInternalServerError, Absent)
               [] n.outcome = "panic" ->
                    Respond([r EXCEPT !.stmt = n.stmt], NoResponse, Absent)
               [] OTHER -> [r EXCEPT !.stmt = n.stmt, !.pc = "UpsertStatement"]

\* StatementsHandler: dispatch on the method
StatementsHandler(r, tok) ==
    CASE r.method = "GET" -> getHandlerBegin(r)
      [] r.method = "POST" -> postHandlerBegin(r, tok)
      [] OTHER -> Respond(r, StatusMethodNotAllowed, Absent)

\* whether serving r calls uuid.NewString()
RequestDrawsUuid(r) ==
    /\ r.method = "POST"
    /\ r.wellformed
    /\ ~MissingRequired(DecodeStatement(r.body))
    /\ DrawsUuid(DecodeStatement(r.body))

\* a request arrives at goroutine p and runs up to its first repository call
Receive(p, r) ==
    /\ req[p].pc \in {"idle", "done"}
    /\ req' = [req EXCEPT ![p] =
                 StatementsHandler(
                     [IdleReq EXCEPT !.method = r.method, !.id = r.id,
                                     !.expand = r.expand,
                                     !.wellformed = r.wellformed,
                                     !.body = r.body],
                     UuidToken(uuidCtr + 1))]
    /\ uuidCtr' = IF RequestDrawsUuid(r) THEN uuidCtr + 1 ELSE uuidCtr
    /\ posts' = IF r.method = "POST" THEN posts + 1 ELSE posts
    /\ pre' = [pre EXCEPT ![p] = [statements |-> statements,
                                  transactions |-> transactions]]
    /\ ops' = [ops EXCEPT ![p] = <<>>]
    /\ UNCHANGED <<backend, statements, transactions>>

SkipKept_None(cur, j, m) == Len(cur) + 1

SkipKept_Every(cur, j, m) == IF j <= Len(cur) THEN j ELSE Len(cur) + 1

\* first index k >= j of cur whose id is not a key of m, or Len(cur) + 1
SkipKept(cur, j, m) ==
    LET todo == {k \in j..Len(cur) : cur[k].id \notin DOMAIN m}
    IN  IF todo = {} THEN Len(cur) + 1
        ELSE CHOOSE k \in todo : \A x \in todo : k <= x

SyncAdvance_OffByOne(r) ==
    IF r.i < Len(r.stmt.transactions[1]) THEN [r EXCEPT !.pc = "SyncUpsert"]
    ELSE LET k == SkipKept(r.cur, r.j, r.newTxMap)
         IN  IF k <= Len(r.cur) THEN [r EXCEPT !.pc = "SyncDelete", !.j = k]
             ELSE Respond([r EXCEPT !.j = k], StatusCreated, Absent)

SyncAdvance_DeleteFirst(r) ==
    LET k == SkipKept(r.cur, r.j, r.newTxMap)
    IN  IF k <= Len(r.cur) THEN [r EXCEPT !.pc = "SyncDelete", !.j = k]
        ELSE IF r.i <= Len(r.stmt.transactions[1])
             THEN [r EXCEPT !.pc = "SyncUpsert", !.j = k]
        ELSE Respond([r EXCEPT !.j = k], StatusCreated, Absent)

\* SyncTransactions between two repository calls: from the upsert loop to
\* the delete loop to the return, and postHandler's 201 after it
SyncAdvance(r) ==
    IF r.i <= Len(r.stmt.transactions[1]) THEN [r EXCEPT !.pc = "SyncUpsert"]
    ELSE LET k == SkipKept(r.cur, r.j, r.newTxMap)
         IN  IF k <= Len(r.cur) THEN [r EXCEPT !.pc = "SyncDelete", !.j = k]
             ELSE Respond([r EXCEPT !.j = k], StatusCreated, Absent)

postHandlerAfterSave_AlwaysSync(r) ==
    IF ~IsPresent(r.stmt.transactions)
    THEN Respond(r, StatusBadRequest, Absent)
    ELSE [r EXCEPT !.pc = "SyncRead"]

\* postHandler after SaveStatement returned nil
postHandlerAfterSave(r) ==
    IF shouldExpandTransactions(r.expand)
    THEN IF ~IsPresent(r.stmt.transactions)
         THEN Respond(r, StatusBadRequest, Absent)
         ELSE [r EXCEPT !.pc = "SyncRead"]
    ELSE Respond(r, StatusCreated, Absent)

\* SaveStatement: s.Repo.UpsertStatement(statement)
UpsertStatementStep(p) ==
    /\ req[p].pc = "UpsertStatement"
    /\ \E ok \in CallOutcomes(backend) :
         /\ ops' = Logged(p, "UpsertStatement", req[p].stmt.ID, ok)
         /\ IF ok
            THEN /\ statements' = UpsertStatement(backend, statements, req[p].stmt)
                 /\ req' = [req EXCEPT ![p] = postHandlerAfterSave(@)]
            ELSE /\ req' = [req EXCEPT ![p] =
                              Respond(@, StatusInternalServerError, Absent)]
                 /\ UNCHANGED statements
    /\ UNCHANGED <<backend, transactions, uuidCtr, posts, pre>>

\* SyncTransactions: s.Repo.GetTransactions(statementID)
SyncReadStep(p) ==
    /\ req[p].pc = "SyncRead"
    /\ \E ok \in CallOutcomes(backend) :
         /\ ops' = Logged(p, "GetTransactions", req[p].stmt.ID, ok)
         /\ IF ok
            THEN \E cur \in GetTransactions(transactions, req[p].stmt.ID) :
                   req' = [req EXCEPT ![p] =
                             SyncAdvance([@ EXCEPT !.cur = cur, !.i = 1, !.j = 1,
                                                   !.newTxMap = <<>>])]
            ELSE req' = [req EXCEPT ![p] =
                           Respond(@, StatusInternalServerError, Absent)]
    /\ UNCHANGED <<backend, statements, transactions, uuidCtr, posts, pre>>

SyncUpsertStep_Continue(p) ==
    /\ req[p].pc = "SyncUpsert"
    /\ LET tx == TransactionNormalize(req[p].stmt.transactions[1][req[p].i])
       IN  \E ok \in CallOutcomes(backend) :
             /\ ops' = Logged(p, "UpsertTransaction", tx.id, ok)
             /\ transactions' = IF ok THEN UpsertTransaction(backend, transactions, tx)
                                ELSE transactions
             /\ req' = [req EXCEPT ![p] =
                          SyncAdvance([@ EXCEPT !.newTxMap = Put(@, tx.id, tx),
                                                !.i = @ + 1])]
    /\ UNCHANGED <<backend, statements, uuidCtr, posts, pre>>

\* SyncTransactions: tx.Normalize(), s.Repo.UpsertTransaction(&tx) and
\* newTxMap[tx.ID] = &tx for the next incoming transaction
SyncUpsertStep(p) ==
    /\ req[p].pc = "SyncUpsert"
    /\ LET tx == TransactionNormalize(req[p].stmt.transactions[1][req[p].i])
       IN  \E ok \in CallOutcomes(backend) :
             /\ ops' = Logged(p, "UpsertTransaction", tx.id, ok)
             /\ IF ok
                THEN /\ transactions' = UpsertTransaction(backend, transactions, tx)
                     /\ req' = [req EXCEPT ![p] =
                                  SyncAdvance([@ EXCEPT
                                      !.newTxMap = Put(@, tx.id, tx),
                                      !.i = @ + 1])]
                ELSE /\ req' = [req EXCEPT ![p] =
                                  Respond(@, StatusInternalServerError, Absent)]
                     /\ UNCHANGED transactions
    /\ UNCHANGED <<backend, statements, uuidCtr, posts, pre>>

SyncDeleteStep_Retry(p) ==
    /\ req[p].pc = "SyncDelete"
    /\ LET id == req[p].cur[req[p].j].id
       IN  \E up \in CallOutcomes(backend) :
             LET ok == up /\ CanDelete(transactions, id)
             IN  /\ ops' = Logged(p, "DeleteTransaction", id, ok)
                 /\ transactions' = IF ok THEN DeleteTransaction(transactions, id)
                                    ELSE transactions
                 /\ req' = IF ok
                           THEN [req EXCEPT ![p] =
                                   SyncAdvance([@ EXCEPT !.j = @ + 1])]
                           ELSE req
    /\ UNCHANGED <<backend, statements, uuidCtr, posts, pre>>

\* SyncTransactions: s.Repo.DeleteTransaction(transaction.ID) for the next
\* current transaction that is not in newTxMap
SyncDeleteStep(p) ==
    /\ req[p].pc = "SyncDelete"
    /\ LET id == req[p].cur[req[p].j].id
       IN  \E up \in CallOutcomes(backend) :
             LET ok == up /\ CanDelete(transactions, id)
             IN  /\ ops' = Logged(p, "DeleteTransaction", id, ok)
                 /\ IF ok
                    THEN /\ transactions' = DeleteTransaction(transactions, id)
                         /\ req' = [req EXCEPT ![p] =
                                      SyncAdvance([@ EXCEPT !.j = @ + 1])]
                    ELSE /\ req' = [req EXCEPT ![p] =
                                      Respond(@, StatusInternalServerError, Absent)]
                         /\ UNCHANGED transactions
    /\ UNCHANGED <<backend, statements, uuidCtr, posts, pre>>

getHandlerFetched_Error(r, ok, stmts) ==
    IF ~ok \/ r.id \notin DOMAIN stmts
    THEN Respond(r, StatusInternalServerError, Absent)
    ELSE Respond([r EXCEPT !.stmt = stmts[r.id]], StatusOK,
                 Some(EncodeStatement(stmts[r.id])))

\* getHandler once s.Repo.GetStatement(id) has returned: 500 on an error,
\* 404 on nil, else the next call or the encoded statement
getHandlerFetched(r, ok, stmts) ==
    IF ~ok THEN Respond(r, StatusInternalServerError, Absent)
    ELSE IF r.id \notin DOMAIN stmts THEN Respond(r, StatusNotFound, Absent)
    ELSE IF shouldExpandTransactions(r.expand)
         THEN [r EXCEPT !.stmt = stmts[r.id], !.pc = "GetTransactions"]
    ELSE Respond([r EXCEPT !.stmt = stmts[r.id]], StatusOK,
                 Some(EncodeStatement(stmts[r.id])))

\* getHandler: s.Repo.GetStatement(id)
GetStatementStep(p) ==
    /\ req[p].pc = "GetStatement"
    /\ \E ok \in CallOutcomes(backend) :
         /\ ops' = Logged(p, "GetStatement", req[p].id, ok)
         /\ req' = [req EXCEPT ![p] = getHandlerFetched(@, ok, statements)]
    /\ UNCHANGED <<backend, statements, transactions, uuidCtr, posts, pre>>

\* getHandler: s.Repo.GetTransactions(id) and stmt.Transactions = &txs.
\* InMemoryRepo.GetStatement handed out the stored *Statement itself, so
\* there the assignment writes into the stored statement.
GetTransactionsStep(p) ==
    /\ req[p].pc = "GetTransactions"
    /\ \E ok \in CallOutcomes(backend) :
         /\ ops' = Logged(p, "GetTransactions", req[p].id, ok)
         /\ IF ok
            THEN \E txs \in GetTransactions(transactions, req[p].id) :
                   LET s == [req[p].stmt EXCEPT !.transactions = Some(txs)]
                   IN  /\ req' = [req EXCEPT ![p] =
                                    Respond([@ EXCEPT !.stmt = s], StatusOK,
                                            Some(EncodeStatement(s)))]
                       /\ statements' =
                            IF backend = "memory" /\ req[p].id \in DOMAIN statements
                            THEN [statements EXCEPT ![req[p].id] = s]
                            ELSE statements
            ELSE /\ req' = [req EXCEPT ![p] =
                              Respond(@, StatusInternalServerError, Absent)]
                 /\ UNCHANGED statements
    /\ UNCHANGED <<backend, transactions, uuidCtr, posts, pre>>

-----------------------------------------------------------------------------
(* clients: the requests the model sends *)

SeqProc == "p1"

\* 2025-01-01T02:00:00+01:00
DueDate == [h |-> 2, off |-> 1]

\* members a client can put into a transaction although no field of
\* Transaction is tagged with their names
ForgedSource ==
    [type |-> "card", transaction_id |-> "x9", statement_id |-> "forged"]

JsonT1 ==
    [id |-> "t1", description |-> "coffee", amount |-> 40, date |-> ZeroTime,
     statement_id |-> "forged", payment_source |-> Some(ForgedSource)]

JsonT2 ==
    [id |-> "t2", description |-> "books", amount |-> 60, date |-> DueDate,
     statement_id |-> "forged", payment_source |-> Some(ForgedSource)]

\* another transaction under the id of JsonT1
JsonT1b ==
    [id |-> "t1", description |-> "tea", amount |-> 45, date |-> DueDate,
     statement_id |-> "forged", payment_source |-> Some(ForgedSource)]

JsonTxPool == {JsonT1, JsonT2}

\* arrays of at most n elements in which no element follows itself
JsonArrays(n) ==
    {l \in SeqsUpTo(JsonTxPool, n) : \A k \in 1..(Len(l) - 1) : l[k] # l[k + 1]}

\* "transactions" of a body: missing, or an array of at most MaxTx elements
JsonTransactions == {Absent} \cup {Some(l) : l \in JsonArrays(MaxTx)}

\* a statement named by its source_id and one named by its due date
ValidBodies ==
    {[source_name |-> "bank", source_id |-> n[1], total_amount |-> 100,
      currency |-> "USD", payment_due_date |-> n[2], transactions |-> txs] :
        n \in {<<Some("s1"), Absent>>, <<Absent, Some(DueDate)>>},
        txs \in JsonTransactions}

BaseBody ==
    [source_name |-> "bank", source_id |-> Some("s1"), total_amount |-> 100,
     currency |-> "USD", payment_due_date |-> Some(DueDate),
     transactions |-> Some(<<JsonT1>>)]

InvalidBodies ==
    {[BaseBody EXCEPT !.source_name = ""],
     [BaseBody EXCEPT !.total_amount = 0],
     [BaseBody EXCEPT !.total_amount = -5],
     [BaseBody EXCEPT !.currency = ""]}

\* the split values of the $expand query parameter
ExpandParams == {<<"">>, <<"transactions">>}

GetExpandParams == {<<"">>, <<"foo", "Transactions">>}

GetIds == {"", "bank_s1", "nope"}

HttpRequest(method, id, expand, wellformed, body) ==
    [method |-> method, id |-> id, expand |-> expand,
     wellformed |-> wellformed, body |-> body]

GetRequests == {HttpRequest("GET", id, e, FALSE, NoBody) :
                   id \in GetIds, e \in GetExpandParams}

PostRequests ==
    {HttpRequest("POST", "", e, TRUE, b) : e \in ExpandParams, b \in ValidBodies}
    \cup {HttpRequest("POST", "", <<"transactions">>, TRUE, b) : b \in InvalidBodies}
    \cup {HttpRequest("POST", "", <<"transactions">>, FALSE, NoBody)}

OtherRequests == {HttpRequest("DELETE", "bank_s1", <<"transactions">>, FALSE, NoBody)}

NoStore == [statements |-> <<>>, transactions |-> <<>>]

\* NewRepoFromEnv, NewInMemoryRepo / NewMongoRepo on an empty database,
\* NewService, and a server that has received nothing
InitServer ==
    /\ backend \in Backends
    /\ statements = <<>>
    /\ transactions = <<>>
    /\ uuidCtr = 0
    /\ posts = 0
    /\ req = [p \in Procs |-> IdleReq]
    /\ pre = [p \in Procs |-> NoStore]
    /\ ops = [p \in Procs |-> <<>>]
    /\ results = <<>>

Init ==
    /\ InitServer
    /\ script = <<>>
    /\ nin = <<>>
    /\ nout = <<>>

clientVars == <<script, results, nin, nout>>

ClientGet ==
    /\ \E r \in GetRequests : Receive(SeqProc, r)
    /\ UNCHANGED clientVars

ClientPost ==
    /\ posts < MaxPosts
    /\ \E r \in PostRequests : Receive(SeqProc, r)
    /\ UNCHANGED clientVars

ClientOther ==
    /\ \E r \in OtherRequests : Receive(SeqProc, r)
    /\ UNCHANGED clientVars

\* one client, one request at a time
Next ==
    \/ ClientGet
    \/ ClientPost
    \/ ClientOther
    \/ UpsertStatementStep(SeqProc) /\ UNCHANGED clientVars
    \/ SyncReadStep(SeqProc) /\ UNCHANGED clientVars
    \/ SyncUpsertStep(SeqProc) /\ UNCHANGED clientVars
    \/ SyncDeleteStep(SeqProc) /\ UNCHANGED clientVars
    \/ GetStatementStep(SeqProc) /\ UNCHANGED clientVars
    \/ GetTransactionsStep(SeqProc) /\ UNCHANGED clientVars

Spec == Init /\ [][Next]_vars

-----------------------------------------------------------------------------
(* Statement.Normalize on its own: two calls on two statements *)

SomePaymentSource ==
    [type |-> "card", transaction_id |-> "x9", statement_id |-> "bank_s2"]

StructT1 ==
    [id |-> "t1", description |-> "coffee", amount |-> 40, date |-> ZeroTime,
     statement_id |-> "bank_s2", payment_source |-> Some(SomePaymentSource)]

StructT2 ==
    [id |-> "t2", description |-> "books", amount |-> 60, date |-> DueDate,
     statement_id |-> "", payment_source |-> Absent]

\* 2025-01-01T01:00:00Z, the instant of DueDate in another zone
DueDateZ == [h |-> 1, off |-> 0]

RequiredFields ==
    {<<"bank", 100, "USD">>, <<"", 100, "USD">>, <<"bank", 0, "USD">>,
     <<"bank", -5, "USD">>, <<"bank", 100, "">>}

\* the statements Normalize is called on
NormInputs ==
    {[ID |-> id, source_name |-> f[1], source_id |-> sid, total_amount |-> f[2],
      currency |-> f[3], payment_due_date |-> due, transactions |-> txs] :
        id \in {"", "given"}, f \in RequiredFields,
        sid \in {Absent, Some("s1"), Some("s2")},
        due \in {Absent, Some(DueDate), Some(DueDateZ)},
        txs \in {Absent, Some(<<>>), Some(<<StructT1, StructT2>>)}}

InitNormalize ==
    /\ InitServer
    /\ backend = "memory"
    /\ script = <<>>
    /\ nin \in NormInputs \X NormInputs
    /\ nout = <<>>

\* the next of the two calls: b.Normalize()
NormalizeCall ==
    /\ Len(nout) < Len(nin)
    /\ LET b == nin[Len(nout) + 1]
       IN  /\ nout' = Append(nout, Normalize(b, UuidToken(uuidCtr + 1)))
           /\ uuidCtr' = IF ~MissingRequired(b) /\ DrawsUuid(b)
                         THEN uuidCtr + 1 ELSE uuidCtr
    /\ UNCHANGED <<httpVars, nin>>

NextNormalize == NormalizeCall

SpecNormalize == InitNormalize /\ [][NextNormalize]_vars

-----------------------------------------------------------------------------
(* Statement.Normalize called again on the statement it has normalized *)

InitRenormalize ==
    /\ InitServer
    /\ backend = "memory"
    /\ script = <<>>
    /\ nin \in {<<b>> : b \in NormInputs}
    /\ nout = <<>>

\* b.Normalize() once more, on the receiver the first call returned nil for
NormalizeAgain ==
    /\ Len(nin) = 1
    /\ Len(nout) = 1
    /\ nout[1].outcome = "ok"
    /\ LET b == nout[1].stmt
       IN  /\ nout' = Append(nout, Normalize(b, UuidToken(uuidCtr + 1)))
           /\ uuidCtr' = IF ~MissingRequired(b) /\ DrawsUuid(b)
                         THEN uuidCtr + 1 ELSE uuidCtr
    /\ UNCHANGED <<httpVars, nin>>

NextRenormalize ==
    \/ NormalizeCall
    \/ NormalizeAgain

SpecRenormalize == InitRenormalize /\ [][NextRenormalize]_vars

-----------------------------------------------------------------------------
(* a client that sends a fixed sequence of requests, each after the answer
   to the one before *)

\* stands for the id the server derived for the statement posted last
DerivedId == "$derived"

E2EBodies ==
    [source_name : {"bank"}, source_id : {Absent, Some("s1")},
     total_amount : {100}, currency : {"USD"},
     payment_due_date : {Absent, Some(DueDate)},
     transactions : {Absent, Some(<<JsonT1, JsonT2>>), Some(<<JsonT1>>),
                     Some(<<JsonT1, JsonT2, JsonT1b>>)}]

E2EPosts == {HttpRequest("POST", "", e, TRUE, b) : e \in ExpandParams, b \in E2EBodies}

E2EGets == {HttpRequest("GET", DerivedId, e, FALSE, NoBody) : e \in ExpandParams}

Scripts ==
    {<<a, g>> : a \in E2EPosts, g \in E2EGets}
    \cup {<<a, b, g>> : a \in E2EPosts, b \in E2EPosts, g \in E2EGets}

\* what the client keeps of a request the server answered
Answer(r) ==
    [method |-> r.method, expand |-> r.expand, body |-> r.body,
     id |-> IF r.method = "POST" THEN r.stmt.ID ELSE r.id,
     stmt |-> r.stmt, status |-> r.status, resp |-> r.resp]

\* the answers received so far, the last one included
Answers ==
    IF req[SeqProc].pc = "done" THEN Append(results, Answer(req[SeqProc]))
    ELSE results

InitE2E ==
    /\ InitServer
    /\ script \in Scripts
    /\ nin = <<>>
    /\ nout = <<>>

\* the client sends the next request of its script
ScriptedSend ==
    /\ script # <<>>
    /\ LET r == Head(script)
       IN  Receive(SeqProc,
                   IF r.id = DerivedId
                   THEN [r EXCEPT !.id = req[SeqProc].stmt.ID] ELSE r)
    /\ script' = Tail(script)
    /\ results' = Answers
    /\ UNCHANGED normVars

NextE2E ==
    \/ ScriptedSend
    \/ UpsertStatementStep(SeqProc) /\ UNCHANGED clientVars
    \/ SyncReadStep(SeqProc) /\ UNCHANGED clientVars
    \/ SyncUpsertStep(SeqProc) /\ UNCHANGED clientVars
    \/ SyncDeleteStep(SeqProc) /\ UNCHANGED clientVars
    \/ GetStatementStep(SeqProc) /\ UNCHANGED clientVars
    \/ GetTransactionsStep(SeqProc) /\ UNCHANGED clientVars

SpecE2E == InitE2E /\ [][NextE2E]_vars

\* the goroutine of a request runs on until its handler returns: the Go
\* scheduler does not starve it, InMemoryRepo's locks are held for one map
\* operation only and every MongoRepo call ends within its 5 s timeout
Fairness ==
    /\ WF_vars(UpsertStatementStep(SeqProc) /\ UNCHANGED clientVars)
    /\ WF_vars(SyncReadStep(SeqProc) /\ UNCHANGED clientVars)
    /\ WF_vars(SyncUpsertStep(SeqProc) /\ UNCHANGED clientVars)
    /\ WF_vars(SyncDeleteStep(SeqProc) /\ UNCHANGED clientVars)
    /\ WF_vars(GetStatementStep(SeqProc) /\ UNCHANGED clientVars)
    /\ WF_vars(GetTransactionsStep(SeqProc) /\ UNCHANGED clientVars)

\* the scripted client, served by a goroutine that runs on
SpecFair == SpecE2E /\ Fairness

-----------------------------------------------------------------------------
(* two clients: after an optional first POST, two POSTs with expansion for
   the same statement are served by two goroutines at once *)

RaceArrays ==
    {<<JsonT1>>, <<JsonT2>>, <<JsonT1, JsonT2>>, <<JsonT2, JsonT1>>}

RacePosts ==
    {HttpRequest("POST", "", <<"transactions">>, TRUE,
                 [source_name |-> "bank", source_id |-> Some("s1"),
                  total_amount |-> 100, currency |-> "USD",
                  payment_due_date |-> Absent, transactions |-> Some(l)]) :
        l \in RaceArrays}

RaceScripts ==
    {<<a, b>> : a \in RacePosts, b \in RacePosts}
    \cup {<<s, a, b>> : s \in RacePosts, a \in RacePosts, b \in RacePosts}

InitRace ==
    /\ InitServer
    /\ script \in RaceScripts
    /\ nin = <<>>
    /\ nout = <<>>

\* the POST that fills the store, served alone and to its end
RaceSetup ==
    /\ Len(script) = 3
    /\ req["p1"].pc = "idle"
    /\ Receive("p1", Head(script))
    /\ script' = Tail(script)
    /\ UNCHANGED <<results, nin, nout>>

\* the first of the two racing POSTs arrives
RaceFirst ==
    /\ Len(script) = 2
    /\ Receive("p1", Head(script))
    /\ script' = Tail(script)
    /\ UNCHANGED <<results, nin, nout>>

\* the second arrives, at any moment from then on
RaceSecond ==
    /\ Len(script) = 1
    /\ Receive("p2", Head(script))
    /\ script' = Tail(script)
    /\ UNCHANGED <<results, nin, nout>>

NextRace ==
    \/ RaceSetup
    \/ RaceFirst
    \/ RaceSecond
    \/ \E p \in Procs : UpsertStatementStep(p) /\ UNCHANGED clientVars
    \/ \E p \in Procs : SyncReadStep(p) /\ UNCHANGED clientVars
    \/ \E p \in Procs : SyncUpsertStep(p) /\ UNCHANGED clientVars
    \/ \E p \in Procs : SyncDeleteStep(p) /\ UNCHANGED clientVars

SpecRace == InitRace /\ [][NextRace]_vars

-----------------------------------------------------------------------------
(* StatementService called directly, with structs as arguments.  What a call
   returns is kept in status: StatusCreated for nil, StatusInternalServerError
   for an error, the codes postHandler answers them with. *)

ServiceStatements ==
    {[ID |-> "", source_name |-> "bank", source_id |-> Some(sid),
      total_amount |-> 100, currency |-> "USD",
      payment_due_date |-> Some(DueDate), transactions |-> txs] :
        sid \in {"s1", "s2"},
        txs \in {Absent, Some(<<StructT1, StructT2>>), Some(<<StructT2>>)}}

NoArgs == [stmt |-> NoStatement, sid |-> "", txs |-> <<>>]

ServiceCalls ==
    {[NoArgs EXCEPT !.stmt = b] : b \in ServiceStatements}
    \cup {[NoArgs EXCEPT !.sid = sid, !.txs = txs] :
            sid \in {"bank_s1", "bank_s2"},
            txs \in {<<>>, <<StructT1>>, <<StructT2>>, <<StructT1, StructT2>>}}

ServiceScripts ==
    {<<a>> : a \in ServiceCalls}
    \cup {<<a, b>> : a \in ServiceCalls, b \in ServiceCalls}

InitService ==
    /\ InitServer
    /\ script \in ServiceScripts
    /\ nin = <<>>
    /\ nout = <<>>

\* SaveStatement(&c.stmt) up to s.Repo.UpsertStatement
SaveStatementBegin(c, tok) ==
    LET n == Normalize(c.stmt, tok)
        r == [IdleReq EXCEPT !.method = "SaveStatement", !.stmt = n.stmt]
    IN  CASE n.outcome = "error" -> Respond(r, StatusInternalServerError, Absent)
          [] n.outcome = "panic" -> Respond(r, NoResponse, Absent)
          [] OTHER -> [r EXCEPT !.pc = "UpsertStatement"]

\* SyncTransactions(c.sid, &c.txs) up to s.Repo.GetTransactions
SyncTransactionsBegin(c) ==
    [IdleReq EXCEPT !.method = "SyncTransactions",
                    !.expand = <<"transactions">>,
                    !.stmt = [NoStatement EXCEPT !.ID = c.sid,
                                                 !.transactions = Some(c.txs)],
                    !.pc = "SyncRead"]

\* the next call of the script, once the one before has returned
ServiceCall ==
    /\ script # <<>>
    /\ req[SeqProc].pc \in {"idle", "done"}
    /\ LET c == Head(script)
       IN  req' = [req EXCEPT ![SeqProc] =
                     IF c.sid = ""
                     THEN SaveStatementBegin(c, UuidToken(uuidCtr + 1))
                     ELSE SyncTransactionsBegin(c)]
    /\ pre' = [pre EXCEPT ![SeqProc] = [statements |-> statements,
                                        transactions |-> transactions]]
    /\ ops' = [ops EXCEPT ![SeqProc] = <<>>]
    /\ script' = Tail(script)
    /\ UNCHANGED <<backend, statements, transactions, uuidCtr, posts,
                   results, nin, nout>>

NextService ==
    \/ ServiceCall
    \/ UpsertStatementStep(SeqProc) /\ UNCHANGED clientVars
    \/ SyncReadStep(SeqProc) /\ UNCHANGED clientVars
    \/ SyncUpsertStep(SeqProc) /\ UNCHANGED clientVars
    \/ SyncDeleteStep(SeqProc) /\ UNCHANGED clientVars

SpecService == InitService /\ [][NextService]_vars

-----------------------------------------------------------------------------
(* Properties *)

\* the request goroutine p1 is serving, or has just answered
Cur == req[SeqProc]

\* the incoming sequence T that postHandler hands to SyncTransactions
Incoming(r) == r.stmt.transactions[1]

IncomingIds(r) == {Incoming(r)[k].id : k \in 1..Len(Incoming(r))}

\* the persisted set S of the statement when the request arrived
PersistedBefore(r) == PersistedIds(pre[SeqProc].transactions, r.stmt.ID)

\* a POST whose SyncTransactions(stmt.ID, stmt.Transactions) returned nil
SyncSucceeded(r) ==
    /\ r.pc = "done"
    /\ r.method = "POST"
    /\ shouldExpandTransactions(r.expand)
    /\ r.status = StatusCreated

\* positions of the calls of one kind, on one key, the request has issued
Calls(op, key) ==
    {k \in 1..Len(ops[SeqProc]) :
        ops[SeqProc][k].op = op /\ ops[SeqProc][k].key = key}

DeleteCalls == {k \in 1..Len(ops[SeqProc]) : ops[SeqProc][k].op = "DeleteTransaction"}

SecondSyncOfSameInput ==
    /\ Len(results) = 1
    /\ results[1].method = "POST"
    /\ shouldExpandTransactions(results[1].expand)
    /\ results[1].status = StatusCreated
    /\ Cur.method = "POST"
    /\ shouldExpandTransactions(Cur.expand)
    /\ Cur.pc \notin {"idle", "UpsertStatement"}
    /\ IsPresent(Cur.stmt.transactions)
    /\ Cur.stmt.ID = results[1].stmt.ID
    /\ Cur.stmt.transactions = results[1].stmt.transactions

\* a repository call of the request came back with an error of the driver
DriverFailed == \E k \in 1..Len(ops[SeqProc]) : ~ops[SeqProc][k].ok

\* C2: running SyncTransactions(sid, T) again after it succeeded issues no
\* delete; unless the driver fails a call it succeeds, has upserted every
\* element of T once more, in order, and the persisted id set of sid is the
\* one it found.
C2_SyncIdempotent ==
    SecondSyncOfSameInput =>
        /\ DeleteCalls = {}
        /\ Cur.pc # "SyncDelete"
        /\ Cur.pc = "done" =>
             /\ Cur.status = StatusCreated \/ DriverFailed
             /\ Cur.status = StatusCreated =>
                  /\ PersistedIds(transactions, Cur.stmt.ID) = PersistedBefore(Cur)
                  /\ PersistedBefore(Cur) = IncomingIds(Cur)
                  /\ [k \in 1..Len(Incoming(Cur)) |-> ops[SeqProc][k + 2].key]
                        = [k \in 1..Len(Incoming(Cur)) |-> Incoming(Cur)[k].id]
                  /\ Len(ops[SeqProc]) = Len(Incoming(Cur)) + 2

\* the repeated sync of a two-element T has returned success
C2_Witness ==
    /\ SecondSyncOfSameInput
    /\ Cur.pc = "done"
    /\ Cur.status = StatusCreated
    /\ Cardinality(IncomingIds(Cur)) = 2

\* C3: a successful SyncTransactions(sid, T) over the persisted set S has
\* upserted every id in T, has deleted every id of S \ T exactly once, and
\* has deleted no id that occurs in T.
C3_SyncMutations ==
    SyncSucceeded(Cur) =>
        /\ \A id \in IncomingIds(Cur) : Calls("UpsertTransaction", id) # {}
        /\ \A id \in PersistedBefore(Cur) \ IncomingIds(Cur) :
              Cardinality(Calls("DeleteTransaction", id)) = 1
        /\ \A id \in IncomingIds(Cur) : Calls("DeleteTransaction", id) = {}

\* a successful sync that deleted two ids and upserted another
C3_Witness ==
    /\ SyncSucceeded(Cur)
    /\ Cardinality(PersistedBefore(Cur) \ IncomingIds(Cur)) = 2
    /\ Cardinality(DeleteCalls) = 2
    /\ IncomingIds(Cur) # {}

\* the calls to Normalize that have returned (or panicked)
NormCalls == 1..Len(nout)

\* source_name non-empty, total_amount > 0, currency non-empty
ValidFields(b) == b.source_name # "" /\ b.total_amount > 0 /\ b.currency # ""

NoTransactions(b) == b.transactions = Absent \/ b.transactions = Some(<<>>)

\* C4: Normalize on a valid statement whose transaction sequence is absent or
\* empty, whatever its optional fields, returns success and leaves exactly
\* one transaction: id = statement id, description "Total Amount",
\* amount = total_amount, statement_id = statement id.
C4_DefaultTransaction ==
    \A k \in NormCalls :
        (ValidFields(nin[k]) /\ NoTransactions(nin[k])) =>
            /\ nout[k].outcome = "ok"
            /\ Len(nout[k].stmt.transactions[1]) = 1
            /\ nout[k].stmt.transactions[1][1].id = nout[k].stmt.ID
            /\ nout[k].stmt.transactions[1][1].description = "Total Amount"
            /\ nout[k].stmt.transactions[1][1].amount = nin[k].total_amount
            /\ nout[k].stmt.transactions[1][1].statement_id = nout[k].stmt.ID

\* two calls that both got past the validation, on statements with absent
\* id and the same source_name
TwoDerivations ==
    /\ Len(nout) = 2
    /\ nout[1].outcome # "error" /\ nout[2].outcome # "error"
    /\ nin[1].ID = "" /\ nin[2].ID = ""
    /\ nin[1].source_name = nin[2].source_name

\* C5 as stated: two Normalize calls on statements with absent id and
\* identical source_name and source_id yield identical ids, whatever the
\* other fields are.
C5_SameSourceSameId ==
    (TwoDerivations /\ nin[1].source_id = nin[2].source_id) =>
        nout[1].stmt.ID = nout[2].stmt.ID

\* C5 amended: two Normalize calls on statements with absent id, identical
\* source_name and the same present source_id yield identical ids, whatever
\* the other fields are.
C5_SamePresentSourceSameId ==
    (TwoDerivations /\ nin[1].source_id = nin[2].source_id
                    /\ IsPresent(nin[1].source_id)) =>
        nout[1].stmt.ID = nout[2].stmt.ID

\* same source, every other field different, and ids derived
C5_Witness ==
    /\ TwoDerivations
    /\ nin[1].source_id = Some("s1") /\ nin[2].source_id = Some("s1")
    /\ nin[1].payment_due_date = Absent /\ nin[2].payment_due_date # Absent
    /\ nin[1].transactions # nin[2].transactions
    /\ nout[1].stmt.ID = "bank_s1" /\ nout[2].stmt.ID = "bank_s1"

\* the third rule of the derivation applies
RandomCase(b, o) ==
    /\ b.ID = "" /\ o.outcome # "error"
    /\ ~IsPresent(b.source_id) /\ ~IsPresent(b.payment_due_date)

\* C6: Normalize leaves a non-empty id alone; an absent id becomes
\* source_name_source_id if source_id is present, else
\* source_name_<RFC 3339 of the due date in UTC> if the due date is present
\* (both due dates of the model are the instant 01:00 UTC), else source_name_
\* and a token no other call got; a failed validation derives nothing.
C6_IdPriority ==
    \A k \in NormCalls :
        LET b == nin[k]
            o == nout[k]
        IN  /\ b.ID # "" => o.stmt.ID = b.ID
            /\ o.outcome = "error" => o.stmt.ID = b.ID
            /\ (b.ID = "" /\ o.outcome # "error") =>
                 IF IsPresent(b.source_id)
                 THEN o.stmt.ID = b.source_name \o "_" \o b.source_id[1]
                 ELSE IF IsPresent(b.payment_due_date)
                      THEN o.stmt.ID = b.source_name \o "_2025-01-01T01:00:00Z"
                 ELSE /\ \E n \in 1..uuidCtr :
                            o.stmt.ID = b.source_name \o "_" \o UuidToken(n)
                      /\ \A x \in NormCalls \ {k} :
                            RandomCase(nin[x], nout[x]) => nout[x].stmt.ID # o.stmt.ID

\* source_id has won over a due date that is present, and a statement with
\* neither has drawn a token
C6_Witness ==
    /\ Len(nout) = 2
    /\ nin[1].ID = "" /\ IsPresent(nin[1].source_id)
    /\ nin[1].payment_due_date = Some(DueDate)
    /\ nout[1].stmt.ID = "bank_s1"
    /\ RandomCase(nin[2], nout[2])
    /\ nout[2].stmt.ID = "bank_u1"

\* a well-formed POST whose statement fails the validation
InvalidPost(r) ==
    /\ r.method = "POST"
    /\ r.wellformed
    /\ (r.body.source_name = "" \/ r.body.total_amount <= 0 \/ r.body.currency = "")

StoreUntouched ==
    /\ statements = pre[SeqProc].statements
    /\ transactions = pre[SeqProc].transactions

\* C7: when source_name is empty, total_amount <= 0 or currency is empty,
\* Normalize returns an error (SaveStatement's error is postHandler's 500),
\* no repository call is issued and the persisted statements and
\* transactions are unchanged.
C7_InvalidStatementRejected ==
    InvalidPost(Cur) =>
        /\ Cur.pc = "done"
        /\ Cur.status = StatusInternalServerError
        /\ Cur.stmt.ID = ""
        /\ ops[SeqProc] = <<>>
        /\ StoreUntouched

\* an invalid statement posted to a store that holds something
C7_Witness ==
    /\ InvalidPost(Cur)
    /\ Cur.body.currency = ""
    /\ DOMAIN statements # {}
    /\ DOMAIN transactions # {}

\* C8: a GET without id, or with an empty one, is answered 400 without any
\* repository call; a GET with an id for which no statement is persisted is
\* answered 404 once GetStatement has returned without a driver error (the
\* absent statement itself is never the 500).
C8_GetErrors ==
    (Cur.method = "GET" /\ Cur.pc = "done") =>
        /\ Cur.id = "" =>
             Cur.status = StatusBadRequest /\ ops[SeqProc] = <<>>
        /\ (Cur.id # "" /\ Cur.id \notin DOMAIN pre[SeqProc].statements) =>
             /\ Len(ops[SeqProc]) = 1
             /\ ops[SeqProc][1].op = "GetStatement"
             /\ ops[SeqProc][1].ok => Cur.status = StatusNotFound
             /\ StoreUntouched

\* a GET of an unknown id answered 404 by a store that holds statements
C8_Witness ==
    /\ Cur.method = "GET" /\ Cur.pc = "done"
    /\ Cur.id = "nope"
    /\ Cur.status = StatusNotFound
    /\ DOMAIN statements # {}

MinimalBody ==
    [source_name |-> "bank", source_id |-> Absent, total_amount |-> 100,
     currency |-> "USD", payment_due_date |-> Absent, transactions |-> Absent]

\* C9: on an empty in-memory store, the POST of {source_name: "bank",
\* total_amount: 100, currency: "USD"} is answered 201, and the GET by the
\* derived id that follows returns a statement with total_amount 100 and
\* exactly one transaction, of amount 100.
C9_DefaultTransactionEndToEnd ==
    (/\ backend = "memory"
     /\ Len(Answers) >= 1
     /\ Answers[1].method = "POST"
     /\ Answers[1].body = MinimalBody) =>
        /\ Answers[1].status = StatusCreated
        /\ (Len(Answers) >= 2 /\ Answers[2].method = "GET") =>
             /\ Answers[2].status = StatusOK
             /\ Answers[2].resp[1].total_amount = 100
             /\ Len(Answers[2].resp[1].transactions[1]) = 1
             /\ Answers[2].resp[1].transactions[1][1].amount = 100

PostedWithExpansion(a, txs) ==
    /\ a.method = "POST"
    /\ shouldExpandTransactions(a.expand)
    /\ a.body.transactions = Some(txs)
    /\ a.status = StatusCreated

\* POST [t1, t2], POST [t1] for the same statement, both with expansion and
\* both answered 201, then a GET with expansion that has been answered
ShrinkingScenario ==
    /\ Len(Answers) = 3
    /\ PostedWithExpansion(Answers[1], <<JsonT1, JsonT2>>)
    /\ PostedWithExpansion(Answers[2], <<JsonT1>>)
    /\ Answers[2].id = Answers[1].id
    /\ Answers[3].method = "GET"
    /\ Answers[3].id = Answers[1].id
    /\ shouldExpandTransactions(Answers[3].expand)

\* C10: after POST [t1, t2] and POST [t1] for the same statement, both with
\* expansion and both answered 201, the GET with expansion is answered (200,
\* unless the driver failed a call) with exactly one transaction, t1.
C10_ShrinkingReingestion ==
    ShrinkingScenario =>
        /\ Answers[3].status = StatusOK \/ DriverFailed
        /\ Answers[3].status = StatusOK =>
             /\ Len(Answers[3].resp[1].transactions[1]) = 1
             /\ Answers[3].resp[1].transactions[1][1].id = "t1"
             /\ Answers[3].resp[1].transactions[1][1].amount = 40
             /\ PersistedIds(transactions, Answers[1].id) = {"t1"}

\* the scenario has run to its end and the GET has answered one transaction
C10_Witness ==
    /\ ShrinkingScenario
    /\ Answers[3].status = StatusOK
    /\ Len(Answers[3].resp[1].transactions[1]) = 1

\* a well-formed, valid POST with $expand=transactions whose body has no
\* "transactions" member
ExpandWithoutTransactions(r) ==
    /\ r.method = "POST"
    /\ r.wellformed
    /\ shouldExpandTransactions(r.expand)
    /\ ~MissingRequired(DecodeStatement(r.body))
    /\ r.body.transactions = Absent

\* the request has called UpsertTransaction or DeleteTransaction
ReconciliationCalls ==
    {k \in 1..Len(ops[SeqProc]) :
        ops[SeqProc][k].op \in {"UpsertTransaction", "DeleteTransaction"}}

\* C11: a POST with $expand=transactions whose payload has no transactions
\* member issues no UpsertTransaction and no DeleteTransaction call and,
\* unless the driver failed the statement's upsert, is answered 400.
C11_ExpandWithoutTransactionsRejected ==
    ExpandWithoutTransactions(Cur) =>
        /\ ReconciliationCalls = {}
        /\ (Cur.pc = "done" /\ ~DriverFailed) => Cur.status = StatusBadRequest

\* C12: a POST whose body decodes but fails the validation of Normalize
\* (empty source_name, total_amount <= 0 or empty currency) is answered 400.
C12_ValidationErrorIsBadRequest ==
    (InvalidPost(Cur) /\ Cur.pc = "done") => Cur.status = StatusBadRequest

\* the last repository call goroutine p has issued
LastCall(p) == ops[p][Len(ops[p])]

\* C13: DeleteTransaction(id) on an id that is not persisted returns an
\* error and changes nothing; on a persisted id it removes exactly that
\* transaction and returns ok (InMemoryRepo always, MongoRepo unless the
\* driver fails the call, which then changes nothing); no statement changes.
C13_DeleteTransaction ==
    [][\A p \in Procs :
         (req[p].pc = "SyncDelete" /\ req'[p] # req[p]) =>
            LET id == req[p].cur[req[p].j].id
                c == ops'[p][Len(ops'[p])]
            IN  /\ c.op = "DeleteTransaction" /\ c.key = id
                /\ statements' = statements
                /\ id \notin DOMAIN transactions =>
                     ~c.ok /\ transactions' = transactions
                /\ id \in DOMAIN transactions =>
                     /\ c.ok \/ backend = "mongo"
                     /\ ~c.ok => transactions' = transactions
                     /\ c.ok =>
                          /\ DOMAIN transactions' = DOMAIN transactions \ {id}
                          /\ \A x \in DOMAIN transactions' :
                                transactions'[x] = transactions[x]]_vars

\* on InMemoryRepo, one goroutine has deleted an id and the other one's
\* delete of the same id has then come back with the error
C13_Witness ==
    /\ backend = "memory"
    /\ \E p \in Procs, q \in Procs :
         /\ p # q
         /\ req[p].pc = "done" /\ req[p].status = StatusInternalServerError
         /\ ops[p] # <<>>
         /\ LastCall(p).op = "DeleteTransaction" /\ ~LastCall(p).ok
         /\ \E k \in 1..Len(ops[q]) :
              /\ ops[q][k].op = "DeleteTransaction"
              /\ ops[q][k].key = LastCall(p).key
              /\ ops[q][k].ok

\* two POSTs answered 201 for the same statement id, then a GET of that id
\* answered 200
OverwriteScenario ==
    /\ Len(Answers) = 3
    /\ Answers[1].method = "POST" /\ Answers[1].status = StatusCreated
    /\ Answers[2].method = "POST" /\ Answers[2].status = StatusCreated
    /\ Answers[2].id = Answers[1].id
    /\ Answers[3].method = "GET" /\ Answers[3].status = StatusOK
    /\ Answers[3].id = Answers[1].id

\* C14: on both repositories UpsertStatement replaces: the GET after the
\* second upsert of an id returns the optional fields of the statement
\* upserted last, so one that the first upsert set and the second lacks is
\* absent.
C14_UpsertReplaces ==
    OverwriteScenario =>
        /\ Answers[3].resp[1].source_id = Answers[2].stmt.source_id
        /\ IsPresent(Answers[3].resp[1].payment_due_date)
              = IsPresent(Answers[2].stmt.payment_due_date)

\* the two racing POSTs have both been answered 201
BothCompleted ==
    /\ script = <<>>
    /\ \A p \in Procs : req[p].pc = "done" /\ req[p].status = StatusCreated
    /\ req["p1"].stmt.ID = req["p2"].stmt.ID

\* C15: when two POSTs with expansion for the same statement, with
\* transaction id sets T1 and T2, race and both complete with 201, the
\* persisted id set of the statement is T1 or T2.
C15_LastWriterWins ==
    BothCompleted =>
        PersistedIds(transactions, req["p1"].stmt.ID)
            \in {IncomingIds(req["p1"]), IncomingIds(req["p2"])}

\* a request that is not a POST with $expand=transactions
NotExpandedPost(r) ==
    /\ r.pc # "idle"
    /\ ~(r.method = "POST" /\ shouldExpandTransactions(r.expand))

\* C16: a GET, with or without expansion, a POST without
\* $expand=transactions and a request with another method leave the
\* persisted transactions, their set and their content, as they found them.
C16_TransactionsOnlyByExpandedPost ==
    NotExpandedPost(Cur) => transactions = pre[SeqProc].transactions

\* a POST without expansion, answered 201, whose transactions are not the
\* ones persisted for its statement
C16_Witness ==
    /\ Cur.method = "POST" /\ ~shouldExpandTransactions(Cur.expand)
    /\ Cur.pc = "done" /\ Cur.status = StatusCreated
    /\ IsPresent(Cur.body.transactions)
    /\ PersistedBefore(Cur) # {}
    /\ IncomingIds(Cur) \ PersistedBefore(Cur) # {}
    /\ PersistedBefore(Cur) \ IncomingIds(Cur) # {}

\* the statement as a repository holds it: as given, or as its document
SameStatement(stored, x) == stored = x \/ stored = BsonStatement(x)

\* the second of two POSTs for one statement id, both answered 201
SecondSuccessfulPost ==
    /\ Len(results) = 1
    /\ results[1].method = "POST" /\ results[1].status = StatusCreated
    /\ Cur.method = "POST" /\ Cur.pc = "done" /\ Cur.status = StatusCreated
    /\ Cur.stmt.ID = results[1].stmt.ID

\* C17: after successful POSTs the statement persisted under a derived id is
\* the statement of the most recent POST with that id, and no request removes
\* a persisted statement.
C17_StatementLifecycle ==
    /\ DOMAIN pre[SeqProc].statements \subseteq DOMAIN statements
    /\ SecondSuccessfulPost =>
         /\ Cur.stmt.ID \in DOMAIN statements
         /\ SameStatement(statements[Cur.stmt.ID], Cur.stmt)

\* a POST whose SyncTransactions has issued its read
SyncStarted(r) ==
    /\ r.method = "POST"
    /\ shouldExpandTransactions(r.expand)
    /\ Len(ops[SeqProc]) >= 2

\* SyncTransactions' calls are ops[2..]: the read, then one call per loop
\* iteration; the k-th call, when it is an upsert, is that of Incoming[k - 2]
UpsertedBy(k) == Incoming(Cur)[k - 2]

\* the calls of the sync that changed the store
AppliedCalls ==
    {k \in 3..Len(ops[SeqProc]) : ops[SeqProc][k].ok}

AppliedOn(id) == {k \in AppliedCalls : ops[SeqProc][k].key = id}

LastOf(S) == CHOOSE k \in S : \A x \in S : x <= k

\* C18: the first failing call of SyncTransactions is its last call and the
\* request is answered 500; what the calls before it did stays: an id whose
\* last applied call is an upsert is persisted with that content, one whose
\* last applied call is a delete is not persisted, every other transaction
\* is as it was when the request arrived.
C18_SyncFailure ==
    SyncStarted(Cur) =>
        /\ \A k \in 2..Len(ops[SeqProc]) :
              ~ops[SeqProc][k].ok =>
                 /\ k = Len(ops[SeqProc])
                 /\ Cur.pc = "done"
                 /\ Cur.status = StatusInternalServerError
        /\ \A id \in DOMAIN transactions \cup DOMAIN pre[SeqProc].transactions :
              IF AppliedOn(id) = {}
              THEN /\ id \in DOMAIN transactions
                   /\ id \in DOMAIN pre[SeqProc].transactions
                   /\ transactions[id] = pre[SeqProc].transactions[id]
              ELSE LET k == LastOf(AppliedOn(id))
                   IN  IF ops[SeqProc][k].op = "UpsertTransaction"
                       THEN /\ id \in DOMAIN transactions
                            /\ transactions[id].description = UpsertedBy(k).description
                            /\ transactions[id].amount = UpsertedBy(k).amount
                            /\ transactions[id].statement_id = Cur.stmt.ID
                       ELSE id \notin DOMAIN transactions

\* a sync that failed in its delete loop after an upsert and a delete had
\* been applied
C18_Witness ==
    /\ SyncStarted(Cur)
    /\ Cur.pc = "done" /\ Cur.status = StatusInternalServerError
    /\ ~LastCall(SeqProc).ok /\ LastCall(SeqProc).op = "DeleteTransaction"
    /\ \E k \in AppliedCalls : ops[SeqProc][k].op = "DeleteTransaction"
    /\ \E k \in AppliedCalls :
          /\ ops[SeqProc][k].op = "UpsertTransaction"
          /\ ops[SeqProc][k].key \notin DOMAIN pre[SeqProc].transactions

\* C19: SyncTransactions reads the persisted set once, as its first call;
\* the upserts follow, one per element of the incoming sequence and in its
\* order, whatever is persisted; a delete is issued only after the upsert of
\* the last incoming transaction has returned without error.
C19_SyncOrdering ==
    SyncStarted(Cur) =>
        /\ Calls("GetTransactions", Cur.stmt.ID) = {2}
        /\ \A k \in 3..Len(ops[SeqProc]) :
              IF k - 2 <= Len(Incoming(Cur))
              THEN /\ ops[SeqProc][k].op = "UpsertTransaction"
                   /\ ops[SeqProc][k].key = UpsertedBy(k).id
              ELSE /\ ops[SeqProc][k].op = "DeleteTransaction"
                   /\ \A m \in 3..(Len(Incoming(Cur)) + 2) : ops[SeqProc][m].ok
        /\ SyncSucceeded(Cur) => Len(ops[SeqProc]) >= Len(Incoming(Cur)) + 2

\* a successful sync that read, upserted two different transactions and
\* then deleted the one it had found persisted
C19_Witness ==
    /\ SyncSucceeded(Cur)
    /\ Len(Incoming(Cur)) = 2
    /\ Cardinality(IncomingIds(Cur)) = 2
    /\ PersistedBefore(Cur) # {}
    /\ Len(ops[SeqProc]) = 5
    /\ ops[SeqProc][5].op = "DeleteTransaction"

\* positions of the incoming sequence that carry the id
Carrying(r, id) == {k \in 1..Len(Incoming(r)) : Incoming(r)[k].id = id}

HasDuplicates(r) == Cardinality(IncomingIds(r)) < Len(Incoming(r))

NormalizedPost(r) ==
    /\ r.method = "POST"
    /\ r.pc # "idle"
    /\ r.stmt.ID # ""
    /\ ~(r.pc = "done" /\ r.status = NoResponse)

\* C21: after a successful Normalize every transaction of the statement has
\* the statement's id as statement_id; every transaction a POST with
\* expansion has upserted is persisted with the id of the posted statement,
\* and no persisted transaction has a statement_id other than the id of a
\* persisted statement, whatever statement_id the body carried.
C21_StatementIdFromServer ==
    /\ NormalizedPost(Cur) =>
          \A k \in 1..Len(Incoming(Cur)) :
             Incoming(Cur)[k].statement_id = Cur.stmt.ID
    /\ SyncStarted(Cur) =>
          \A k \in AppliedCalls :
             ops[SeqProc][k].op = "UpsertTransaction" =>
                transactions[ops[SeqProc][k].key].statement_id = Cur.stmt.ID
    /\ \A id \in DOMAIN transactions :
          transactions[id].statement_id \in DOMAIN statements

\* a body whose transactions name a statement of their own has been synced
C21_Witness ==
    /\ SyncSucceeded(Cur)
    /\ IsPresent(Cur.body.transactions)
    /\ Len(Cur.body.transactions[1]) = 2
    /\ \A k \in 1..2 : Cur.body.transactions[1][k].statement_id = "forged"
    /\ \A id \in IncomingIds(Cur) :
          transactions[id].statement_id = Cur.stmt.ID

\* no element of the sequence has a payment_source
NoPaymentSource(txs) ==
    \A k \in 1..Len(txs) : txs[k].payment_source = Absent

\* C22: whatever payment_source the incoming transactions carry, the
\* transactions Statement.Normalize leaves in the statement, the ones stored
\* with the statement and every transaction SyncTransactions has written
\* have none.
C22_PaymentSourceNeverPersisted ==
    /\ (Cur.method = "SaveStatement" /\ Cur.status # NoResponse
            /\ IsPresent(Cur.stmt.transactions)
            /\ Cur.pc \in {"UpsertStatement", "done"}
            /\ Cur.status # StatusInternalServerError) =>
          NoPaymentSource(Incoming(Cur))
    /\ \A id \in DOMAIN statements :
          IsPresent(statements[id].transactions) =>
              NoPaymentSource(statements[id].transactions[1])
    /\ \A id \in DOMAIN transactions : transactions[id].payment_source = Absent

\* SyncTransactions has returned nil on a sequence whose t1 carries a
\* payment_source, and t1 is persisted
C22_Witness ==
    /\ Cur.method = "SyncTransactions"
    /\ Cur.pc = "done" /\ Cur.status = StatusCreated
    /\ \E k \in 1..Len(Incoming(Cur)) :
          /\ Incoming(Cur)[k].id = "t1"
          /\ IsPresent(Incoming(Cur)[k].payment_source)
    /\ "t1" \in DOMAIN transactions
    /\ DOMAIN statements # {}

\* positions of the calls of one kind the request has issued
CallsOf(op) == {k \in 1..Len(ops[SeqProc]) : ops[SeqProc][k].op = op}

\* SyncTransactions is between its first call and its return
InSync(r) == r.pc \in {"SyncRead", "SyncUpsert", "SyncDelete"}

\* one read, at most n upserts and m deletes, and a failed call is the last
SyncCallBudget ==
    (Cur.method = "POST" /\ shouldExpandTransactions(Cur.expand)
        /\ IsPresent(Cur.stmt.transactions)) =>
        /\ Cardinality(CallsOf("GetTransactions")) <= 1
        /\ Cardinality(CallsOf("UpsertTransaction")) <= Len(Incoming(Cur))
        /\ Cardinality(CallsOf("DeleteTransaction"))
              <= Cardinality(PersistedBefore(Cur))
        /\ \A k \in 1..Len(ops[SeqProc]) :
              ~ops[SeqProc][k].ok => k = Len(ops[SeqProc])

\* C23: SyncTransactions(sid, T) with n = Len(T) over m persisted
\* transactions never issues more than one read, n upserts and m deletes,
\* issues no call after a failed one, and once started it returns.
C23_SyncTerminates ==
    /\ []SyncCallBudget
    /\ InSync(Cur) ~> (Cur.pc = "done")

\* a sync that has used its whole budget: the read, three upserts and the
\* delete of the one persisted transaction
C23_Witness ==
    /\ SyncSucceeded(Cur)
    /\ Len(Incoming(Cur)) = 3
    /\ Cardinality(CallsOf("UpsertTransaction")) = 3
    /\ Cardinality(PersistedBefore(Cur)) = 1
    /\ Cardinality(CallsOf("DeleteTransaction")) = 1

\* the statements that had transactions persisted when the request arrived
OwnersBefore ==
    {pre[SeqProc].transactions[id].statement_id :
        id \in DOMAIN pre[SeqProc].transactions}

\* C24: the SyncTransactions(sidA, T) of a POST with expansion leaves the
\* persisted transactions of every other statement sidB, ids and contents,
\* as they were, also when T holds an id that is persisted under sidB.
C24_OtherStatementsUntouched ==
    (Cur.method = "POST" /\ shouldExpandTransactions(Cur.expand)) =>
        \A sidB \in OwnersBefore \ {Cur.stmt.ID} :
            TransactionsOf(transactions, sidB)
                = TransactionsOf(pre[SeqProc].transactions, sidB)

\* C25: on InMemoryRepo a GET, with or without $expand=transactions, leaves
\* every persisted statement, its transactions field included, as it found
\* it.
C25_GetIsReadOnly ==
    (backend = "memory" /\ Cur.method = "GET") =>
        statements = pre[SeqProc].statements

\* goroutine q has deleted the id
HasDeleted(q, id) ==
    \E k \in 1..Len(ops[q]) :
       /\ ops[q][k].op = "DeleteTransaction"
       /\ ops[q][k].key = id
       /\ ops[q][k].ok

\* SyncTransactions of goroutine p has returned an error
SyncFailed(p) ==
    req[p].pc = "done" /\ req[p].status = StatusInternalServerError

Renormalized == Len(nin) = 1 /\ Len(nout) = 2

\* C27: Normalize applied to a statement it has already normalized returns
\* nil and leaves the statement as it is: same id (no new token drawn), same
\* transactions, each with the same statement_id.
C27_NormalizeIdempotent ==
    Renormalized =>
        /\ nout[2].outcome = "ok"
        /\ nout[2].stmt = nout[1].stmt
        /\ uuidCtr <= 1

\* the second call has returned on a statement whose id the first call drew
\* at random
C27_Witness ==
    /\ Renormalized
    /\ RandomCase(nin[1], nout[1])
    /\ uuidCtr = 1
    /\ nout[2].stmt.ID = "bank_u1"
    /\ Len(nout[2].stmt.transactions[1]) = 2

=============================================================================
